---- MODULE Spec2Model ----
(***************************************************************************)
(* Model of the daily-metric aggregation (src/src/transformation.py) and   *)
(* the feature engineering pass (src/src/features.py).                     *)
(*                                                                         *)
(* A pandas float is modelled exactly as a normalised rational <<n, d>>    *)
(* with d > 0; NaN is the empty tuple.  Integer columns (orders, items,    *)
(* quantity, date as a day number of October 2024, customer_id) are        *)
(* integers.  rolling_3d_std_net holds the square of the standard          *)
(* deviation (the sample variance), which is rational.                     *)
(***************************************************************************)
EXTENDS Integers, Sequences, FiniteSets, TLC

VARIABLES lines, metrics, featured, pc,
          request, feature_values,
          transactions, fx_rates, df_with_fx, missing_fx,
          raw_transactions, clean_transactions,
          available, end_date, max_attempts,
          current_date, consecutive_failures, downloaded_files

\* the prediction request and the feature row computed for it
predictVars == <<request, feature_values>>

\* the tables of the currency conversion
convertVars == <<transactions, fx_rates, df_with_fx, missing_fx>>

\* the raw table handed to the preprocessing and the cleaned table
cleanVars == <<raw_transactions, clean_transactions>>

\* the dates that have a daily file, the arguments of the discovery and its
\* local variables
ingestVars == <<available, end_date, max_attempts,
                current_date, consecutive_failures, downloaded_files>>

vars == <<lines, metrics, featured, pc, predictVars, convertVars,
          cleanVars, ingestVars>>

\* no preprocessing under way
CleanIdle ==
    /\ raw_transactions = <<>>
    /\ clean_transactions = <<>>

\* no discovery under way
IngestIdle ==
    /\ available = {}
    /\ end_date = 0
    /\ max_attempts = 0
    /\ current_date = 0
    /\ consecutive_failures = 0
    /\ downloaded_files = <<>>

----------------------------------------------------------------------------
(* Bounds of the model *)

NumDates == 5
MaxRows == 5
MaxLines == 3

\* customer identifiers, ordered as the sort orders them
Customers == {1, 2}
Dates == 1..NumDates
FileDates == {1, 2}
Invoices == {1, 2}

----------------------------------------------------------------------------
(* Floats *)

NaN == <<>>

IsNaN(x) == x = NaN

Abs(n) == IF n < 0 THEN -n ELSE n

RECURSIVE GCD(_, _)
GCD(a, b) == IF b = 0 THEN a ELSE GCD(b, a % b)

Rat(n, d) ==
    LET s == IF d < 0 THEN -1 ELSE 1
        g == GCD(Abs(n), Abs(d))
    IN  <<(s * n) \div g, (s * d) \div g>>

F(i) == <<i, 1>>

FAdd(x, y) ==
    IF IsNaN(x) \/ IsNaN(y) THEN NaN
    ELSE IF x[2] = 1 /\ y[2] = 1 THEN <<x[1] + y[1], 1>>
    ELSE Rat(x[1] * y[2] + y[1] * x[2], x[2] * y[2])

FSub(x, y) ==
    IF IsNaN(x) \/ IsNaN(y) THEN NaN
    ELSE IF x[2] = 1 /\ y[2] = 1 THEN <<x[1] - y[1], 1>>
    ELSE Rat(x[1] * y[2] - y[1] * x[2], x[2] * y[2])

FMul(x, y) ==
    IF IsNaN(x) \/ IsNaN(y) THEN NaN
    ELSE IF x[2] = 1 /\ y[2] = 1 THEN <<x[1] * y[1], 1>>
    ELSE Rat(x[1] * y[1], x[2] * y[2])

\* division by zero does not occur: every divisor is clipped from below
FDiv(x, y) ==
    IF IsNaN(x) \/ IsNaN(y) THEN NaN
    ELSE IF y = <<1, 1>> THEN x
    ELSE Rat(x[1] * y[2], x[2] * y[1])

FLess(x, y) == x[1] * y[2] < y[1] * x[2]

\* Series.clip(lower=lo): NaN stays NaN
ClipLower(x, lo) == IF IsNaN(x) THEN NaN ELSE IF FLess(x, lo) THEN lo ELSE x

\* the upper clip left out
ClipUpperLeftOut(x, hi) == x

\* Series.clip(upper=hi): NaN stays NaN
ClipUpper(x, hi) == IF IsNaN(x) THEN NaN ELSE IF FLess(hi, x) THEN hi ELSE x

\* fillna left out: a missing value stays missing
FillNaLeftOut(x, v) == x

\* Series.fillna(v)
FillNa(x, v) == IF IsNaN(x) THEN v ELSE x

\* Series.sum(): skipna=True, the sum of no value is 0
RECURSIVE SumSkipNa(_)
SumSkipNa(s) ==
    IF s = <<>> THEN F(0)
    ELSE IF IsNaN(s[1]) THEN SumSkipNa(Tail(s))
    ELSE FAdd(s[1], SumSkipNa(Tail(s)))

RECURSIVE MaxOf(_)
MaxOf(s) ==
    IF Len(s) = 1 THEN s[1]
    ELSE LET m == MaxOf(Tail(s)) IN IF FLess(s[1], m) THEN m ELSE s[1]

RECURSIVE SumInt(_)
SumInt(s) == IF s = <<>> THEN 0 ELSE s[1] + SumInt(Tail(s))

\* a function on 1..n held as a sequence value
AsSeq(f) == SubSeq(f, 1, Len(f))

\* the column col of a table, as a series
Column(df, col) == AsSeq([i \in 1..Len(df) |-> df[i][col]])

\* an integer column read as floats
AsFloat(s) == AsSeq([i \in 1..Len(s) |-> F(s[i])])

----------------------------------------------------------------------------
(* transformation.py: aggregate_daily_customer_metrics *)

\* Series.where(cond, 0)
Where(x, cond) == IF cond THEN x ELSE F(0)

\* value_gbp, gross_value and returns_value of one line
ValueGbp(l) == FMul(F(l.quantity), l.price_gbp)

GrossValue(l) == Where(ValueGbp(l), l.quantity > 0)

\* the returned value taken with the absolute quantity, as items is
ReturnsValueUnsigned(l) ==
    Where(FMul(F(Abs(l.quantity)), l.price_gbp), l.quantity < 0)

ReturnsValue(l) == Where(ValueGbp(l), l.quantity < 0)

KeyOf(r) == <<r.date, r.customer_id>>

\* groupby(['date', 'customer_id']) orders its groups by (date, customer_id)
GroupKeyLess(a, b) == a[1] < b[1] \/ (a[1] = b[1] /\ a[2] < b[2])

RECURSIVE SortedGroupKeys(_)
SortedGroupKeys(S) ==
    IF S = {} THEN <<>>
    ELSE LET m == CHOOSE k \in S : \A o \in S : o = k \/ GroupKeyLess(k, o)
         IN  <<m>> \o SortedGroupKeys(S \ {m})

GroupLines(df, key) == SelectSeq(df, LAMBDA l : KeyOf(l) = key)

\* the rows counted instead of the distinct values
CountRows(s) == Len(s)

\* Series.nunique()
NUnique(s) == Cardinality({s[i] : i \in 1..Len(s)})

AggregateGroup(df, key) ==
    LET g == GroupLines(df, key)
    IN  [date        |-> key[1],
         customer_id |-> key[2],
         orders      |-> NUnique(Column(g, "invoice_id")),
         items       |-> SumInt([i \in 1..Len(g) |-> Abs(g[i].quantity)]),
         gross_gbp   |-> SumSkipNa([i \in 1..Len(g) |-> GrossValue(g[i])]),
         returns_gbp |-> SumSkipNa([i \in 1..Len(g) |-> ReturnsValue(g[i])]),
         net_gbp     |-> SumSkipNa([i \in 1..Len(g) |-> ValueGbp(g[i])])]

aggregate_daily_customer_metrics(df) ==
    LET keys == SortedGroupKeys({KeyOf(df[i]) : i \in 1..Len(df)})
    IN  [k \in 1..Len(keys) |-> AggregateGroup(df, keys[k])]

----------------------------------------------------------------------------
(* features.py: helpers for sort_values, groupby, shift and rolling *)

Window == 3
MinPeriods == 1
Lag1 == 1
Lag2 == 2

SortKeyLeq(a, b) ==
    a.customer_id < b.customer_id
    \/ (a.customer_id = b.customer_id /\ a.date <= b.date)

\* insert r behind every row whose key is not greater: the sort is stable
RECURSIVE InsertSorted(_, _)
InsertSorted(r, s) ==
    IF s = <<>> THEN <<r>>
    ELSE IF SortKeyLeq(s[Len(s)], r) THEN Append(s, r)
    ELSE Append(InsertSorted(r, SubSeq(s, 1, Len(s) - 1)), s[Len(s)])

\* df.sort_values(['customer_id', 'date'])
RECURSIVE SortValues(_)
SortValues(df) ==
    IF df = <<>> THEN <<>>
    ELSE InsertSorted(df[Len(df)], SortValues(SubSeq(df, 1, Len(df) - 1)))

\* the rows of df that belong to customer c, as indices in df order
GroupIndex(df, c) ==
    SelectSeq([i \in 1..Len(df) |-> i], LAMBDA i : df[i].customer_id = c)

PosInGroup(df, i) ==
    Cardinality({j \in 1..i : df[j].customer_id = df[i].customer_id})

GroupSeries(df, s, c) ==
    LET idx == GroupIndex(df, c) IN AsSeq([k \in 1..Len(idx) |-> s[idx[k]]])

\* the largest customer_id of the table
MaxCustomerId(df) ==
    CHOOSE c \in {df[i].customer_id : i \in 1..Len(df)} :
        \A i \in 1..Len(df) : df[i].customer_id <= c

\* Series.shift(n)
Shift(x, n) == AsSeq([k \in 1..Len(x) |-> IF k <= n THEN NaN ELSE x[k - n]])

\* a window one row too long
WindowValuesOneMore(x, k, w) ==
    SelectSeq(SubSeq(x, IF k - w < 1 THEN 1 ELSE k - w, k),
              LAMBDA v : ~IsNaN(v))

\* the observed (non-NaN) values of the window that ends at k
WindowValues(x, k, w) ==
    SelectSeq(SubSeq(x, IF k - w + 1 < 1 THEN 1 ELSE k - w + 1, k),
              LAMBDA v : ~IsNaN(v))

RollingMean(x, w, mp) ==
    AsSeq([k \in 1..Len(x) |->
        LET v == WindowValues(x, k, w)
        IN  IF Len(v) < mp THEN NaN ELSE FDiv(SumSkipNa(v), F(Len(v)))])

\* the sample variance (ddof = 1), undefined for fewer than two values
RollingStd(x, w, mp) ==
    AsSeq([k \in 1..Len(x) |->
        LET v  == WindowValues(x, k, w)
            n  == Len(v)
            sm == SumSkipNa(v)
            sq == SumSkipNa([i \in 1..n |-> FMul(v[i], v[i])])
        IN  IF n < mp \/ n < 2 THEN NaN
            ELSE FDiv(FSub(sq, FDiv(FMul(sm, sm), F(n))), F(n - 1))])

RollingMax(x, w, mp) ==
    AsSeq([k \in 1..Len(x) |->
        LET v == WindowValues(x, k, w)
        IN  IF Len(v) < mp THEN NaN ELSE MaxOf(v)])

RollingSum(x, w, mp) ==
    AsSeq([k \in 1..Len(x) |->
        LET v == WindowValues(x, k, w)
        IN  IF Len(v) < mp THEN NaN ELSE SumSkipNa(v)])

\* Series.cumsum()
Cumsum(x) == AsSeq([k \in 1..Len(x) |-> SumSkipNa(SubSeq(x, 1, k))])

----------------------------------------------------------------------------
(* features.py: the feature groups *)

\* day 1 is 2024-10-01, a Tuesday (dayofweek 1; Monday is 0)
DayOfWeek(d) == d % 7

\* the calendar features left out
NoTemporalFeatures(df) == df

create_temporal_features(df) ==
    AsSeq([i \in 1..Len(df) |->
        df[i] @@ [day_of_week  |-> DayOfWeek(df[i].date),
                  day_of_month |-> df[i].date,
                  is_weekend   |-> IF DayOfWeek(df[i].date) >= 5 THEN 1 ELSE 0]])

\* the window taken without the shift: the row's own value is inside it
UnshiftedRollingMean(x) == RollingMean(x, Window, MinPeriods)

\* the lambdas handed to transform: x.shift(1).rolling(window, min_periods=1)
ShiftedRollingMean(x) == RollingMean(Shift(x, 1), Window, MinPeriods)

ShiftedRollingStd(x) == RollingStd(Shift(x, 1), Window, MinPeriods)

ShiftedRollingMax(x) == RollingMax(Shift(x, 1), Window, MinPeriods)

ShiftedRollingSum(x) == RollingSum(Shift(x, 1), Window, MinPeriods)

\* the function applied to each group's series, by name
GroupFunction(fn, x) ==
    CASE fn = "rolling_mean" -> ShiftedRollingMean(x)
      [] fn = "rolling_std"  -> ShiftedRollingStd(x)
      [] fn = "rolling_max"  -> ShiftedRollingMax(x)
      [] fn = "rolling_sum"  -> ShiftedRollingSum(x)
      [] fn = "shift1"       -> Shift(x, Lag1)
      [] fn = "shift2"       -> Shift(x, Lag2)
      [] fn = "cumsum"       -> Cumsum(x)

\* df.groupby('customer_id')[col].transform(fn), and the grouped shift and
\* cumsum: fn maps each group's series to a series of the same length, and
\* the results keep the rows' places
GroupTransform(df, s, fn) ==
    LET byGroup == AsSeq([c \in 1..MaxCustomerId(df) |->
                             GroupFunction(fn, GroupSeries(df, s, c))])
    IN  AsSeq([i \in 1..Len(df) |->
                  byGroup[df[i].customer_id][PosInGroup(df, i)]])

create_rolling_features(df0) ==
    LET df   == SortValues(df0)
        net  == Column(df, "net_gbp")
        ord  == AsFloat(Column(df, "orders"))
        mean == GroupTransform(df, net, "rolling_mean")
        std  == GroupTransform(df, net, "rolling_std")
        max  == GroupTransform(df, net, "rolling_max")
        sum  == GroupTransform(df, ord, "rolling_sum")
    IN  AsSeq([i \in 1..Len(df) |->
            df[i] @@ [rolling_3d_mean_net   |-> FillNa(mean[i], F(0)),
                      rolling_3d_std_net    |-> FillNa(std[i], F(0)),
                      rolling_3d_max_net    |-> FillNa(max[i], F(0)),
                      rolling_3d_sum_orders |-> FillNa(sum[i], F(0))]])

\* the shift taken over the whole column instead of per customer
UngroupedShift(df, s, lag) == Shift(s, lag)

\* df.groupby('customer_id')[col].shift(lag)
GroupShift(df, s, lag) ==
    IF lag = Lag1 THEN GroupTransform(df, s, "shift1")
    ELSE GroupTransform(df, s, "shift2")

create_lag_features(df0) ==
    LET df  == SortValues(df0)
        net == Column(df, "net_gbp")
        ord == AsFloat(Column(df, "orders"))
        itm == AsFloat(Column(df, "items"))
        n1  == GroupShift(df, net, Lag1)
        o1  == GroupShift(df, ord, Lag1)
        i1  == GroupShift(df, itm, Lag1)
        n2  == GroupShift(df, net, Lag2)
        o2  == GroupShift(df, ord, Lag2)
        i2  == GroupShift(df, itm, Lag2)
    IN  AsSeq([i \in 1..Len(df) |->
            df[i] @@
            [lag_1d_net_gbp |-> FillNa(n1[i], F(0)),
             lag_1d_orders  |-> FillNa(o1[i], F(0)),
             lag_1d_items   |-> FillNa(i1[i], F(0)),
             lag_2d_net_gbp |-> FillNa(n2[i], F(0)),
             lag_2d_orders  |-> FillNa(o2[i], F(0)),
             lag_2d_items   |-> FillNa(i2[i], F(0))]])

\* df.groupby('customer_id')[col].cumsum().shift(1): the cumulative sum is
\* taken per customer, the shift is taken over the whole column
CumsumShifted(df, s) == Shift(GroupTransform(df, s, "cumsum"), 1)

\* df.groupby('customer_id')['date'].transform('first')
FirstPurchaseDate(df, i) == df[GroupIndex(df, df[i].customer_id)[1]].date

create_customer_lifetime_features(df0) ==
    LET df     == SortValues(df0)
        orders == CumsumShifted(df, AsFloat(Column(df, "orders")))
        spend  == CumsumShifted(df, Column(df, "net_gbp"))
    IN  AsSeq([i \in 1..Len(df) |->
            df[i] @@
            [customer_total_orders    |-> FillNa(orders[i], F(0)),
             customer_total_spend     |-> FillNa(spend[i], F(0)),
             customer_days_active     |-> df[i].date - FirstPurchaseDate(df, i),
             customer_avg_order_value |->
                 FillNa(FDiv(spend[i], ClipLower(orders[i], F(1))), F(0))]])

\* 0.01, the lower clip of gross_gbp
MinGross == <<1, 100>>

create_derived_features(df) ==
    AsSeq([i \in 1..Len(df) |->
        df[i] @@
        [avg_items_per_order |->
             FDiv(F(df[i].items), ClipLower(F(df[i].orders), F(1))),
         returns_ratio |->
             ClipUpper(FillNa(FDiv(df[i].returns_gbp,
                                   ClipLower(df[i].gross_gbp, MinGross)),
                              F(0)),
                       F(0))]])

engineer_features(df) ==
    create_derived_features(
        create_customer_lifetime_features(
            create_lag_features(
                create_rolling_features(
                    create_temporal_features(SortValues(df))))))

get_feature_columns ==
    {"orders", "items",
     "day_of_week", "day_of_month", "is_weekend",
     "rolling_3d_mean_net", "rolling_3d_std_net", "rolling_3d_max_net",
     "rolling_3d_sum_orders",
     "lag_1d_net_gbp", "lag_1d_orders", "lag_1d_items",
     "lag_2d_net_gbp", "lag_2d_orders", "lag_2d_items",
     "customer_total_orders", "customer_total_spend", "customer_days_active",
     "customer_avg_order_value",
     "avg_items_per_order", "returns_ratio"}

----------------------------------------------------------------------------
(* transformation.py: convert_to_gbp *)

Currencies == {"GBP", "EUR"}

\* a date value: how it is held ("str" as read from a CSV file or taken
\* from a file name, "datetime64" after pd.to_datetime) and its day
StrDate(d) == <<"str", d>>

\* pd.to_datetime: the same day, held as a timestamp
to_datetime(v) == <<"datetime64", v[2]>>

\* the date of a line taken from its raw timestamp
DateOfTimestamp(l) == to_datetime(l.timestamp)

\* the date of a line derived from its file_date
DateOfLine(l) == to_datetime(l.file_date)

RateColumns == {"date", "currency", "rate_to_gbp"}

\* a rate table without rows
NoRates == [columns |-> RateColumns, rows |-> <<>>]

\* the rows of the rate table that match the line on (date, currency)
MatchingRates(l, right) ==
    SelectSeq(right, LAMBDA r : r.date = l.date /\ r.currency = l.currency)

\* a line without a matching rate dropped by the merge (an inner join)
UnmatchedDropped(l) == <<>>

\* how='left': a line without a matching rate is kept, its rate undefined
UnmatchedKept(l) == <<l @@ [rate_to_gbp |-> NaN]>>

\* df.merge(right, on=['date', 'currency'], how='left'): the lines keep
\* their order; a line is paired with every matching row of the rate table
RECURSIVE MergeLeft(_, _)
MergeLeft(left, right) ==
    IF left = <<>> THEN <<>>
    ELSE LET l == left[1]
             m == MatchingRates(l, right)
             paired == IF m = <<>> THEN UnmatchedKept(l)
                       ELSE [k \in 1..Len(m) |->
                                l @@ [rate_to_gbp |-> m[k].rate_to_gbp]]
         IN  paired \o MergeLeft(Tail(left), right)

\* the rate 1.0 given to the GBP rows whose rate is missing
DefaultRate(r) ==
    IF r.currency = "GBP" /\ IsNaN(r.rate_to_gbp)
    THEN [r EXCEPT !.rate_to_gbp = F(1)] ELSE r

\* the outcome of convert_to_gbp(df, fx): the error raised if any, the two
\* arguments as the call leaves them, the returned table and the number of
\* missing rates it reports
convert_to_gbp(df, fx) ==
    LET dated == AsSeq([i \in 1..Len(df) |->
                     df[i] @@ [date |-> DateOfLine(df[i])]])
        failed(fxNow) == [error |-> "KeyError", df |-> dated,
                          fx_rates |-> fxNow, df_with_fx |-> <<>>,
                          missing_fx |-> 0]
    IN  IF "date" \notin fx.columns THEN failed(fx)
        ELSE
        LET fxd == [fx EXCEPT !.rows = AsSeq([i \in 1..Len(fx.rows) |->
                       [fx.rows[i] EXCEPT !.date = to_datetime(@)]])]
        IN  IF ~({"currency", "rate_to_gbp"} \subseteq fx.columns)
            THEN failed(fxd)
            ELSE
            LET merged  == MergeLeft(dated, fxd.rows)
                missing == Len(SelectSeq(merged,
                                         LAMBDA r : IsNaN(r.rate_to_gbp)))
                filled  == AsSeq([i \in 1..Len(merged) |->
                               IF missing > 0 THEN DefaultRate(merged[i])
                               ELSE merged[i]])
                priced  == AsSeq([i \in 1..Len(filled) |->
                               filled[i] @@
                               [price_gbp |-> FMul(filled[i].unit_price,
                                                   filled[i].rate_to_gbp)]])
            IN  [error |-> "", df |-> dated, fx_rates |-> fxd,
                 df_with_fx |-> priced, missing_fx |-> missing]

----------------------------------------------------------------------------
(* The pipeline: lines are aggregated to the metrics table, or a persisted  *)
(* metrics table is loaded; the metrics table is handed to the feature      *)
(* engine.                                                                  *)

\* (quantity, price_gbp) of a converted line; a line whose rate could not be
\* resolved has the price NaN
LineKinds == {<<2, F(5)>>, <<-1, F(5)>>, <<3, F(2)>>, <<3, NaN>>}

Lines ==
    {[date |-> d, customer_id |-> c, invoice_id |-> v,
      quantity |-> k[1], price_gbp |-> k[2]] :
        d \in FileDates, c \in Customers, v \in Invoices, k \in LineKinds}

\* The persisted metrics table is drawn from a fixed history: the row of
\* customer c on day d.  The values repeat every six days; they hold rising
\* and falling stretches, days without returns and days with a negative net.
GrossHistory == <<50, 0, 30, 10, 40, 20>>
ReturnsHistory == <<0, -5, -5, 0, -12, 0>>
OrdersHistory == <<2, 1, 3, 1, 2, 1>>

\* customer c reads the history two places further on than customer c - 1
HistoryAt(h, d, c) == h[((d + 2 * c - 3) % 6) + 1]

RowAt(d, c) ==
    [date |-> d, customer_id |-> c,
     orders      |-> HistoryAt(OrdersHistory, d, c),
     items       |-> HistoryAt(OrdersHistory, d, c) + 1 + (d % 2),
     gross_gbp   |-> F(HistoryAt(GrossHistory, d, c)),
     returns_gbp |-> F(HistoryAt(ReturnsHistory, d + c - 1, c)),
     net_gbp     |-> F(HistoryAt(GrossHistory, d, c)
                       + HistoryAt(ReturnsHistory, d + c - 1, c))]

Rows == {RowAt(d, c) : d \in Dates, c \in Customers}

Init ==
    /\ lines = <<>>
    /\ metrics = <<>>
    /\ featured = <<>>
    /\ pc = "start"
    /\ request = <<>>
    /\ feature_values = <<>>
    /\ transactions = <<>>
    /\ fx_rates = NoRates
    /\ df_with_fx = <<>>
    /\ missing_fx = 0
    /\ CleanIdle
    /\ IngestIdle

\* a line of the next daily file arrives; the files are read in date order
\* and a file lists its invoices one after the other
FileOrder(a, b) ==
    a.date < b.date \/ (a.date = b.date /\ a.invoice_id <= b.invoice_id)

AddLine ==
    /\ pc = "start"
    /\ Len(lines) < MaxLines
    /\ \E l \in Lines :
        /\ IF lines = <<>> THEN TRUE ELSE FileOrder(lines[Len(lines)], l)
        /\ lines' = Append(lines, l)
    /\ UNCHANGED <<metrics, featured, pc, predictVars, convertVars,
                   cleanVars, ingestVars>>

Aggregate ==
    /\ pc = "start"
    /\ lines # <<>>
    /\ metrics' = aggregate_daily_customer_metrics(lines)
    /\ pc' = "aggregated"
    /\ UNCHANGED <<lines, featured, predictVars, convertVars,
                   cleanVars, ingestVars>>

\* a row of the persisted metrics table is read; the table is the output of
\* an earlier aggregation: one row per key, in (date, customer_id) order
LoadRow ==
    /\ pc \in {"start", "loaded"}
    /\ lines = <<>>
    /\ Len(metrics) < MaxRows
    /\ \E r \in Rows :
        /\ IF metrics = <<>> THEN TRUE
           ELSE GroupKeyLess(KeyOf(metrics[Len(metrics)]), KeyOf(r))
        /\ metrics' = Append(metrics, r)
    /\ pc' = "loaded"
    /\ UNCHANGED <<lines, featured, predictVars, convertVars,
                   cleanVars, ingestVars>>

EngineerFeatures ==
    /\ pc \in {"aggregated", "loaded"}
    /\ metrics # <<>>
    /\ featured' = engineer_features(metrics)
    /\ pc' = "featured"
    /\ UNCHANGED <<lines, metrics, predictVars, convertVars,
                   cleanVars, ingestVars>>

\* the pipeline run: the lines are aggregated and the metrics featured
Next == AddLine \/ Aggregate \/ EngineerFeatures

Spec == Init /\ [][Next]_vars

\* the feature engine run on the persisted metrics table
NextLoaded == LoadRow \/ EngineerFeatures

SpecLoaded == Init /\ [][NextLoaded]_vars

----------------------------------------------------------------------------
(* scripts/predict.py: the features of one customer for one target date,   *)
(* computed from the persisted metrics table                                *)

TargetDates == 1..(NumDates + 1)

\* the filter with the target date itself let through
UpToTarget(r, target_date) == r.date <= target_date

\* customer_data['date'] < target_dt
BeforeTarget(r, target_date) == r.date < target_date

\* the outcome of load_customer_data: the error raised if any, and the rows
\* of the customer dated before the target date
load_customer_data(tbl, customer_id, target_date) ==
    LET customer_data == SelectSeq(tbl, LAMBDA r : r.customer_id = customer_id)
        before == SelectSeq(customer_data,
                            LAMBDA r : BeforeTarget(r, target_date))
    IN  IF customer_data = <<>>
        THEN [error |-> "ValueError", customer_data |-> <<>>]
        ELSE IF before = <<>>
        THEN [error |-> "ValueError", customer_data |-> <<>>]
        ELSE [error |-> "", customer_data |-> before]

\* the registry columns that hold floats
FloatColumns ==
    get_feature_columns \ {"orders", "items", "day_of_week", "day_of_month",
                           "is_weekend", "customer_days_active"}

\* the placeholder row for the target date
dummy_row(customer_data, target_date) ==
    [date |-> target_date, customer_id |-> customer_data[1].customer_id,
     orders |-> 0, items |-> 0,
     gross_gbp |-> F(0), returns_gbp |-> F(0), net_gbp |-> F(0)]

\* pd.concat([customer_data, dummy_row])
Combined(customer_data, target_date) ==
    Append(customer_data, dummy_row(customer_data, target_date))

prepare_prediction_features(customer_data, target_date, feature_cols) ==
    LET feats == engineer_features(Combined(customer_data, target_date))
        prediction_row == SelectSeq(feats, LAMBDA r : r.date = target_date)
    IN  AsSeq([i \in 1..Len(prediction_row) |->
            [c \in feature_cols |->
                IF c \in FloatColumns THEN FillNa(prediction_row[i][c], F(0))
                ELSE prediction_row[i][c]]])

\* make_prediction up to the feature row handed to the model
MakePrediction ==
    /\ pc = "loaded"
    /\ \E c \in Customers, d \in TargetDates :
        LET loaded == load_customer_data(metrics, c, d)
        IN  /\ request' = [customer_id |-> c, target_date |-> d]
            /\ IF loaded.error # ""
               THEN /\ feature_values' = <<>>
                    /\ pc' = "failed"
               ELSE /\ feature_values' =
                           prepare_prediction_features(loaded.customer_data, d,
                                                       get_feature_columns)
                    /\ pc' = "predicted"
    /\ UNCHANGED <<lines, metrics, featured, convertVars,
                   cleanVars, ingestVars>>

\* predictions asked of the persisted metrics table
NextPredict == LoadRow \/ MakePrediction

SpecPredict == Init /\ [][NextPredict]_vars

----------------------------------------------------------------------------
(* The currency conversion: the cleaned transactions and a rate table are   *)
(* handed to convert_to_gbp.                                                *)

MaxTx == 3

\* the rate of a currency on a day
RateAt(d, cur) == IF cur = "GBP" THEN F(1) ELSE Rat(d + 4, d + 5)

\* the (day, currency) keys in the order of the rate file
RateKeys == <<<<1, "EUR">>, <<1, "GBP">>, <<2, "EUR">>, <<2, "GBP">>>>

\* the rate table that holds the keys of S: its dates are held in the form
\* held (strings as read from the file, or timestamps when the reader has
\* converted them), and it has the columns cols
RateTable(S, held, cols) ==
    LET keys == SelectSeq(RateKeys, LAMBDA k : k \in S)
    IN  [columns |-> cols,
         rows |-> AsSeq([i \in 1..Len(keys) |->
             LET row == [date |-> <<held, keys[i][1]>>,
                         currency |-> keys[i][2],
                         rate_to_gbp |-> RateAt(keys[i][1], keys[i][2])]
             IN  [c \in cols |-> row[c]]])]

\* the full set of columns, and the sets that lack one of them
ColumnSets == {RateColumns} \cup {RateColumns \ {c} : c \in RateColumns}

RateTables ==
    {RateTable(S, held, cols) :
        S \in SUBSET {RateKeys[i] : i \in 1..Len(RateKeys)},
        held \in {"str", "datetime64"},
        cols \in ColumnSets}

UnitPrice(cur) == IF cur = "GBP" THEN F(12) ELSE F(42)

\* a cleaned transaction line: file_date is the name of its file, timestamp
\* has been parsed by the validation
TxLines ==
    {[file_date |-> StrDate(d), timestamp |-> to_datetime(StrDate(t)),
      currency |-> c, unit_price |-> UnitPrice(c)] :
        d \in FileDates, t \in FileDates, c \in Currencies}

InitConvert ==
    /\ lines = <<>>
    /\ metrics = <<>>
    /\ featured = <<>>
    /\ pc = "start"
    /\ request = <<>>
    /\ feature_values = <<>>
    /\ transactions = <<>>
    /\ fx_rates \in RateTables
    /\ df_with_fx = <<>>
    /\ missing_fx = 0
    /\ CleanIdle
    /\ IngestIdle

\* a line of the next daily file; the files are concatenated in date order
AddTransaction ==
    /\ pc = "start"
    /\ Len(transactions) < MaxTx
    /\ \E l \in TxLines :
        /\ IF transactions = <<>> THEN TRUE
           ELSE transactions[Len(transactions)].file_date[2] <= l.file_date[2]
        /\ transactions' = Append(transactions, l)
    /\ UNCHANGED <<lines, metrics, featured, pc, predictVars,
                   fx_rates, df_with_fx, missing_fx, cleanVars, ingestVars>>

ConvertToGbp ==
    /\ pc = "start"
    /\ LET out == convert_to_gbp(transactions, fx_rates)
       IN  /\ transactions' = out.df
           /\ fx_rates' = out.fx_rates
           /\ df_with_fx' = out.df_with_fx
           /\ missing_fx' = out.missing_fx
           /\ pc' = IF out.error = "" THEN "converted" ELSE "failed"
    /\ UNCHANGED <<lines, metrics, featured, predictVars,
                   cleanVars, ingestVars>>

NextConvert == AddTransaction \/ ConvertToGbp

SpecConvert == InitConvert /\ [][NextConvert]_vars

\* the rate file is read as it is: a (date, currency) key may come on a
\* second row, with the same rate or with another one
RepeatedRates(T) ==
    {[T EXCEPT !.rows = Append(T.rows,
          [T.rows[j] EXCEPT !.rate_to_gbp = IF same THEN @ ELSE <<3, 4>>])] :
        j \in 1..Len(T.rows), same \in BOOLEAN}

RateTablesAsRead ==
    LET keyed == {RateTable(S, "datetime64", RateColumns) :
                     S \in SUBSET {RateKeys[i] : i \in 1..Len(RateKeys)}}
    IN  keyed \cup UNION {RepeatedRates(T) : T \in keyed}

InitConvertAsRead ==
    /\ lines = <<>>
    /\ metrics = <<>>
    /\ featured = <<>>
    /\ pc = "start"
    /\ request = <<>>
    /\ feature_values = <<>>
    /\ transactions = <<>>
    /\ fx_rates \in RateTablesAsRead
    /\ df_with_fx = <<>>
    /\ missing_fx = 0
    /\ CleanIdle
    /\ IngestIdle

SpecConvertAsRead == InitConvertAsRead /\ [][NextConvert]_vars

----------------------------------------------------------------------------
(* The derived ratios on any combination of gross_gbp and returns_gbp: a    *)
(* table of one or two rows of one customer is handed to the feature engine *)

\* gross values below, at and above the lower clip 0.01, and a negative one
GrossValues == {F(0), <<1, 200>>, <<1, 100>>, F(10), F(-3)}

\* returns values: negative, zero, and positive (an anomaly of the data)
ReturnsValues == {F(-5), <<-1, 1000>>, F(0), F(3)}

RatioRow(d, g, r) ==
    [RowAt(d, 1) EXCEPT !.gross_gbp = g, !.returns_gbp = r,
                        !.net_gbp = FAdd(g, r)]

RatioTables ==
    {<<RatioRow(1, g, r)>> : g \in GrossValues, r \in ReturnsValues}
    \cup {<<RatioRow(1, g1, r1), RatioRow(2, g2, r2)>> :
             g1 \in GrossValues, r1 \in ReturnsValues,
             g2 \in GrossValues, r2 \in ReturnsValues}

InitRatio ==
    /\ lines = <<>>
    /\ metrics \in RatioTables
    /\ featured = <<>>
    /\ pc = "loaded"
    /\ request = <<>>
    /\ feature_values = <<>>
    /\ transactions = <<>>
    /\ fx_rates = NoRates
    /\ df_with_fx = <<>>
    /\ missing_fx = 0
    /\ CleanIdle
    /\ IngestIdle

NextRatio == EngineerFeatures

SpecRatio == InitRatio /\ [][NextRatio]_vars

----------------------------------------------------------------------------
(* preprocessing.py: the raw transaction table is cleaned.  A value that    *)
(* may be missing is held as a tuple: customer_id <<1>>, description        *)
(* <<"Mug">>, and NaN when missing.  A raw timestamp is a string; one that  *)
(* cannot be parsed is held with the day 0.                                 *)

MaxRaw == 3

\* the rows of df whose index is in S, in their order
RECURSIVE Pick(_, _)
Pick(df, S) ==
    IF df = <<>> THEN <<>>
    ELSE LET rest == Pick(SubSeq(df, 1, Len(df) - 1), S)
         IN  IF Len(df) \in S THEN Append(rest, df[Len(df)]) ELSE rest

duplicate_cols ==
    {"invoice_id", "product_id", "timestamp", "quantity", "unit_price"}

\* df.drop_duplicates(subset=duplicate_cols, keep='first')
deduplicate_transactions(df) ==
    Pick(df, {i \in 1..Len(df) :
                 \A j \in 1..(i - 1) :
                     \E c \in duplicate_cols : df[j][c] # df[i][c]})

\* df.dropna(subset=['customer_id'])
handle_missing_customer_id(df) ==
    SelectSeq(df, LAMBDA r : ~IsNaN(r.customer_id))

\* ascending insertion of a float
RECURSIVE InsertFloat(_, _)
InsertFloat(v, s) ==
    IF s = <<>> THEN <<v>>
    ELSE IF FLess(v, s[1]) THEN <<v>> \o s
    ELSE <<s[1]>> \o InsertFloat(v, Tail(s))

RECURSIVE SortFloats(_)
SortFloats(s) ==
    IF s = <<>> THEN <<>> ELSE InsertFloat(s[1], SortFloats(Tail(s)))

\* Series.median() of one value or more
Median(s) ==
    LET o == SortFloats(s)
        n == Len(o)
    IN  IF n % 2 = 1 THEN o[(n + 1) \div 2]
        ELSE FDiv(FAdd(o[n \div 2], o[n \div 2 + 1]), F(2))

\* product_id + '_' + currency + '_' + file_date
price_key(r) == <<r.product_id, r.currency, r.file_date>>

\* the known prices of the rows with the price key of row i
same_key_prices(df, i) ==
    LET rows == SelectSeq(df, LAMBDA r : /\ price_key(r) = price_key(df[i])
                                         /\ ~IsNaN(r.unit_price))
    IN  [k \in 1..Len(rows) |-> rows[k].unit_price]

\* the known prices of the rows with the product of row i
product_prices(df, i) ==
    LET rows == SelectSeq(df, LAMBDA r : /\ r.product_id = df[i].product_id
                                         /\ ~IsNaN(r.unit_price))
    IN  [k \in 1..Len(rows) |-> rows[k].unit_price]

\* the loop over the rows with a missing unit_price, from row i on: the
\* median of the rows with the same key, else of the rows of the product;
\* an imputed price is seen by the rows that follow
RECURSIVE ImputeFrom(_, _)
ImputeFrom(df, i) ==
    IF i > Len(df) THEN df
    ELSE IF ~IsNaN(df[i].unit_price) THEN ImputeFrom(df, i + 1)
    ELSE LET v == IF same_key_prices(df, i) # <<>>
                  THEN Median(same_key_prices(df, i))
                  ELSE IF product_prices(df, i) # <<>>
                  THEN Median(product_prices(df, i))
                  ELSE NaN
         IN  ImputeFrom([df EXCEPT ![i].unit_price = v], i + 1)

handle_missing_unit_price(df) ==
    SelectSeq(ImputeFrom(df, 1), LAMBDA r : ~IsNaN(r.unit_price))

handle_missing_description(df) ==
    [i \in 1..Len(df) |->
        [df[i] EXCEPT !.description = FillNa(@, <<"Unknown">>)]]

valid_currencies == {"GBP", "USD", "EUR"}

\* pd.to_datetime(errors='coerce'): NaT for a string that cannot be parsed
to_datetime_coerce(v) == IF v[2] = 0 THEN NaN ELSE to_datetime(v)

\* ~(unit_price <= 0)
PricePositive(r) == FLess(F(0), r.unit_price)

validate_data(df) ==
    LET currency_ok == SelectSeq(df, LAMBDA r : r.currency \in valid_currencies)
        price_ok    == SelectSeq(currency_ok, PricePositive)
        parsed      == [i \in 1..Len(price_ok) |->
                           [price_ok[i] EXCEPT
                                !.timestamp = to_datetime_coerce(@)]]
    IN  SelectSeq(parsed, LAMBDA r : ~IsNaN(r.timestamp))

preprocess_transactions(df) ==
    validate_data(
        handle_missing_description(
            handle_missing_unit_price(
                handle_missing_customer_id(
                    deduplicate_transactions(df)))))

\* a well-formed raw line, and the ways a raw line departs from it
RawBase ==
    [invoice_id |-> 1, product_id |-> "P1", customer_id |-> <<1>>,
     timestamp |-> StrDate(1), quantity |-> 2, unit_price |-> F(5),
     currency |-> "GBP", description |-> <<"Mug">>, file_date |-> StrDate(1)]

RawLines ==
    {RawBase,
     [RawBase EXCEPT !.invoice_id = 2, !.unit_price = F(9)],
     [RawBase EXCEPT !.quantity = 0],
     [RawBase EXCEPT !.quantity = -1],
     [RawBase EXCEPT !.unit_price = NaN],
     [RawBase EXCEPT !.unit_price = F(0)],
     [RawBase EXCEPT !.unit_price = F(-5)],
     [RawBase EXCEPT !.customer_id = NaN],
     [RawBase EXCEPT !.currency = "XXX"],
     [RawBase EXCEPT !.timestamp = StrDate(0)],
     [RawBase EXCEPT !.product_id = "P2", !.unit_price = NaN,
                     !.quantity = 0],
     [RawBase EXCEPT !.description = NaN, !.currency = "EUR"]}

\* a line of a raw daily file is read
AddRawLine ==
    /\ pc = "start"
    /\ Len(raw_transactions) < MaxRaw
    /\ \E l \in RawLines : raw_transactions' = Append(raw_transactions, l)
    /\ UNCHANGED <<lines, metrics, featured, pc, predictVars, convertVars,
                   clean_transactions, ingestVars>>

\* the report of deduplicate_transactions divides by the number of raw
\* rows: an empty raw table ends in ZeroDivisionError
Preprocess ==
    /\ pc = "start"
    /\ IF raw_transactions = <<>>
       THEN /\ clean_transactions' = <<>>
            /\ pc' = "failed"
       ELSE /\ clean_transactions' = preprocess_transactions(raw_transactions)
            /\ pc' = "cleaned"
    /\ UNCHANGED <<lines, metrics, featured, predictVars, convertVars,
                   raw_transactions, ingestVars>>

NextClean == AddRawLine \/ Preprocess

SpecClean == Init /\ [][NextClean]_vars

----------------------------------------------------------------------------
(* ingestion.py: discover_and_download_daily_files.  A date is its day      *)
(* number; end_date 0 is None; available holds the dates for which          *)
(* download_file returns True (the file is cached or the download succeeds) *)

MaxFileDay == 4

\* start_date, the first day tried
StartDate == 1

\* the values of max_attempts: two small ones and the default
MaxAttemptsValues == {1, 2, 7}

InitDiscover ==
    /\ lines = <<>>
    /\ metrics = <<>>
    /\ featured = <<>>
    /\ pc = "loop"
    /\ request = <<>>
    /\ feature_values = <<>>
    /\ transactions = <<>>
    /\ fx_rates = NoRates
    /\ df_with_fx = <<>>
    /\ missing_fx = 0
    /\ CleanIdle
    /\ available \in SUBSET (StartDate..MaxFileDay)
    /\ end_date \in 0..(MaxFileDay + 1)
    /\ max_attempts \in MaxAttemptsValues
    /\ current_date = StartDate
    /\ consecutive_failures = 0
    /\ downloaded_files = <<>>

\* the two break conditions at the head of the loop
LoopEnds ==
    \/ (end_date # 0 /\ current_date > end_date)
    \/ consecutive_failures >= max_attempts

\* the counter kept on a success
FailuresNeverReset(ok, n) == IF ok THEN n ELSE n + 1

\* consecutive_failures after a date: 0 on a success, one more on a failure
FailuresAfter(ok, n) == IF ok THEN 0 ELSE n + 1

\* one pass of the loop body: the file of current_date is asked for
TryDate ==
    /\ pc = "loop"
    /\ ~LoopEnds
    /\ LET ok == current_date \in available
       IN  /\ downloaded_files' =
                  IF ok THEN Append(downloaded_files, current_date)
                  ELSE downloaded_files
           /\ consecutive_failures' = FailuresAfter(ok, consecutive_failures)
    /\ current_date' = current_date + 1
    /\ UNCHANGED <<lines, metrics, featured, pc, predictVars, convertVars,
                   cleanVars, available, end_date, max_attempts>>

\* the loop is left: the report reads downloaded_files[0] and [-1] before
\* the list is tested for being empty
LeaveLoop ==
    /\ pc = "loop"
    /\ LoopEnds
    /\ pc' = IF downloaded_files = <<>> THEN "IndexError"
             ELSE IF Len(downloaded_files) = 0 THEN "ValueError"
             ELSE "returned"
    /\ UNCHANGED <<lines, metrics, featured, predictVars, convertVars,
                   cleanVars, ingestVars>>

NextDiscover == TryDate \/ LeaveLoop

\* the loop is sequential code: a pass that can be taken is taken
SpecDiscover ==
    InitDiscover /\ [][NextDiscover]_vars /\ WF_vars(NextDiscover)

----------------------------------------------------------------------------
(* Reference notions, stated on rows and dates rather than on shifted series *)

\* the rows of customer tbl[k].customer_id dated strictly before tbl[k].date
PriorRows(tbl, k) ==
    {j \in 1..Len(tbl) : /\ tbl[j].customer_id = tbl[k].customer_id
                         /\ tbl[j].date < tbl[k].date}

\* the number of prior rows that are more recent than row j
NewerPrior(tbl, k, j) ==
    Cardinality({i \in PriorRows(tbl, k) : tbl[i].date > tbl[j].date})

\* the n most recent prior rows (all of them when there are fewer)
MostRecent(tbl, k, n) == {j \in PriorRows(tbl, k) : NewerPrior(tbl, k, j) < n}

RECURSIVE SumOver(_, _, _)
SumOver(tbl, S, col) ==
    IF S = {} THEN F(0)
    ELSE LET j == CHOOSE i \in S : TRUE
             v == IF col \in {"orders", "items"} THEN F(tbl[j][col])
                  ELSE tbl[j][col]
         IN  FAdd(v, SumOver(tbl, S \ {j}, col))

FeatureVector(r) == [c \in get_feature_columns |-> r[c]]

\* the values the net_gbp of one row is changed to
OtherNets == {F(-7), F(41), F(1000)}

HasDuplicateKey(tbl) ==
    \E i, j \in 1..Len(tbl) : i # j /\ KeyOf(tbl[i]) = KeyOf(tbl[j])

----------------------------------------------------------------------------
(* C1: causality.  For a row (C, D) that has an earlier row of C, every     *)
(* feature of the row is the same when the run is repeated on a metrics     *)
(* table that differs only in the net_gbp of the row (C, D) itself.         *)
C1_Causality ==
    pc = "featured" =>
        \A j \in 1..Len(metrics) : \A v \in OtherNets :
            LET other == engineer_features([metrics EXCEPT ![j].net_gbp = v])
            IN  \A k \in 1..Len(featured) :
                    (/\ KeyOf(featured[k]) = KeyOf(metrics[j])
                     /\ PriorRows(featured, k) # {})
                    => /\ KeyOf(other[k]) = KeyOf(metrics[j])
                       /\ other[k].net_gbp = v
                       /\ FeatureVector(other[k]) = FeatureVector(featured[k])

\* a featured table in which a row with earlier history is followed by later
\* rows of the same customer and by another customer's rows
C1_Witness ==
    /\ pc = "featured"
    /\ \E k \in 1..Len(featured) :
        /\ PriorRows(featured, k) # {}
        /\ featured[k].net_gbp \notin OtherNets
        /\ k < Len(featured)
        /\ featured[k + 1].customer_id = featured[k].customer_id
        /\ featured[Len(featured)].customer_id # featured[k].customer_id

----------------------------------------------------------------------------
(* C2: defaulting.  The earliest row of every customer has its rolling,     *)
(* lag and lifetime features and its customer_avg_order_value equal to 0.   *)
HistoryColumns ==
    {"rolling_3d_mean_net", "rolling_3d_std_net", "rolling_3d_max_net",
     "rolling_3d_sum_orders",
     "lag_1d_net_gbp", "lag_1d_orders", "lag_1d_items",
     "lag_2d_net_gbp", "lag_2d_orders", "lag_2d_items",
     "customer_total_orders", "customer_total_spend",
     "customer_avg_order_value"}

C2_Defaulting ==
    pc = "featured" =>
        \A k \in 1..Len(featured) :
            PriorRows(featured, k) = {} =>
                \A c \in HistoryColumns : featured[k][c] = F(0)

----------------------------------------------------------------------------
(* C3: lifetime features.  customer_total_orders is the sum of orders and   *)
(* customer_total_spend the sum of net_gbp over exactly the rows of the     *)
(* same customer dated strictly before the row.                             *)
C3_LifetimeFeatures ==
    pc = "featured" =>
        \A k \in 1..Len(featured) :
            /\ featured[k].customer_total_orders
                   = SumOver(featured, PriorRows(featured, k), "orders")
            /\ featured[k].customer_total_spend
                   = SumOver(featured, PriorRows(featured, k), "net_gbp")

----------------------------------------------------------------------------
(* C4: cross-customer independence.  The featured rows of a customer are    *)
(* the same whether the run holds the other customers' rows or only the     *)
(* customer's own rows.                                                     *)
RowsOf(tbl, c) == SelectSeq(tbl, LAMBDA r : r.customer_id = c)

C4_CrossCustomerIndependence ==
    pc = "featured" =>
        \A c \in Customers :
            RowsOf(metrics, c) # <<>> =>
                RowsOf(featured, c) = engineer_features(RowsOf(metrics, c))

----------------------------------------------------------------------------
(* C5: rolling window.  For a row with k >= 1 earlier rows of its customer, *)
(* rolling_3d_mean_net and rolling_3d_max_net are the mean and the maximum  *)
(* of net_gbp and rolling_3d_sum_orders is the sum of orders over exactly   *)
(* the min(k, 3) most recent rows of the customer dated strictly before     *)
(* the row.                                                                 *)
C5_RollingWindow ==
    pc = "featured" =>
        \A k \in 1..Len(featured) :
            LET R == MostRecent(featured, k, 3)
                n == Cardinality(R)
            IN  PriorRows(featured, k) # {} =>
                  /\ n = IF Cardinality(PriorRows(featured, k)) < 3
                         THEN Cardinality(PriorRows(featured, k)) ELSE 3
                  /\ FMul(featured[k].rolling_3d_mean_net, F(n))
                         = SumOver(featured, R, "net_gbp")
                  /\ \E j \in R :
                         featured[k].rolling_3d_max_net = featured[j].net_gbp
                  /\ \A j \in R :
                         ~FLess(featured[k].rolling_3d_max_net,
                                featured[j].net_gbp)
                  /\ featured[k].rolling_3d_sum_orders
                         = SumOver(featured, R, "orders")

\* a row with four earlier rows whose oldest value would change the mean,
\* the maximum and the order sum if it were inside the window
C5_Witness ==
    /\ pc = "featured"
    /\ \E k \in 1..Len(featured) :
        LET P == PriorRows(featured, k)
            R == MostRecent(featured, k, 3)
        IN  /\ Cardinality(P) = 4
            /\ \E o \in P \ R :
                /\ \A j \in R : FLess(featured[j].net_gbp, featured[o].net_gbp)
                /\ \A j \in R : featured[j].orders # featured[o].orders

----------------------------------------------------------------------------
(* C6: window shrinkage.  For a row with exactly one earlier row of its     *)
(* customer, rolling_3d_std_net is 0 (not NaN) and rolling_3d_mean_net and  *)
(* rolling_3d_max_net equal the net_gbp of that earlier row.                *)
C6_WindowShrinkage ==
    pc = "featured" =>
        \A k \in 1..Len(featured) :
            \A j \in PriorRows(featured, k) :
                PriorRows(featured, k) = {j} =>
                    /\ featured[k].rolling_3d_std_net = F(0)
                    /\ featured[k].rolling_3d_mean_net = featured[j].net_gbp
                    /\ featured[k].rolling_3d_max_net = featured[j].net_gbp

\* a row with exactly one earlier row, of a customer that is not the first
\* one of the table and has a later row too
C6_Witness ==
    /\ pc = "featured"
    /\ \E k \in 2..Len(featured) :
        /\ Cardinality(PriorRows(featured, k)) = 1
        /\ featured[1].customer_id # featured[k].customer_id
        /\ \E i \in 1..Len(featured) : k \in PriorRows(featured, i)

----------------------------------------------------------------------------
(* C7: lag correctness.  For L in {1, 2}, lag_Ld_net_gbp, lag_Ld_orders and *)
(* lag_Ld_items of a row are the net_gbp, orders and items of the L-th      *)
(* preceding row of the same customer, whatever the calendar gap, and 0     *)
(* when the customer has fewer than L earlier rows.                         *)
LagIs(tbl, k, L, net, ord, itm) ==
    LET P == PriorRows(tbl, k)
    IN  IF Cardinality(P) < L
        THEN net = F(0) /\ ord = F(0) /\ itm = F(0)
        ELSE \E j \in P :
                /\ NewerPrior(tbl, k, j) = L - 1
                /\ net = tbl[j].net_gbp
                /\ ord = F(tbl[j].orders)
                /\ itm = F(tbl[j].items)

C7_LagCorrectness ==
    pc = "featured" =>
        \A k \in 1..Len(featured) :
            /\ LagIs(featured, k, 1, featured[k].lag_1d_net_gbp,
                     featured[k].lag_1d_orders, featured[k].lag_1d_items)
            /\ LagIs(featured, k, 2, featured[k].lag_2d_net_gbp,
                     featured[k].lag_2d_orders, featured[k].lag_2d_items)

\* the third row of a customer, two calendar days or more after the second,
\* whose two preceding rows differ, in a table that holds another customer
\* before it
C7_Witness ==
    /\ pc = "featured"
    /\ \E k \in 2..Len(featured) :
        /\ Cardinality(PriorRows(featured, k)) = 2
        /\ featured[k - 1].date < featured[k].date - 1
        /\ featured[k].lag_1d_net_gbp # featured[k].lag_2d_net_gbp
        /\ featured[1].customer_id # featured[k].customer_id

----------------------------------------------------------------------------
(* C8: an undefined price is fatal.  When a line handed to the aggregation  *)
(* has an undefined price_gbp, the aggregation fails the run: no metrics    *)
(* table is returned.                                                       *)
HasUndefinedPrice == \E i \in 1..Len(lines) : IsNaN(lines[i].price_gbp)

C8_UndefinedPriceFatal ==
    HasUndefinedPrice => pc \notin {"aggregated", "featured"}

----------------------------------------------------------------------------
(* C9: aggregation correctness.  Every (date, customer_id) group of lines   *)
(* has exactly one row in the aggregator's table, with orders the number of *)
(* distinct invoice_id, items the sum of |quantity| and net_gbp =           *)
(* gross_gbp + returns_gbp; when the prices of the group are defined,       *)
(* gross_gbp, returns_gbp and net_gbp are the sums of quantity * price_gbp  *)
(* over the lines with quantity > 0, with quantity < 0, and over all lines. *)
LinesOf(key) == {i \in 1..Len(lines) : KeyOf(lines[i]) = key}

RECURSIVE SumQuantity(_)
SumQuantity(S) ==
    IF S = {} THEN 0
    ELSE LET i == CHOOSE j \in S : TRUE
         IN  Abs(lines[i].quantity) + SumQuantity(S \ {i})

RECURSIVE SumValue(_)
SumValue(S) ==
    IF S = {} THEN F(0)
    ELSE LET i == CHOOSE j \in S : TRUE
         IN  FAdd(FMul(F(lines[i].quantity), lines[i].price_gbp),
                  SumValue(S \ {i}))

C9_AggregationCorrectness ==
    pc \in {"aggregated", "featured"} /\ lines # <<>> =>
        /\ \A k \in 1..Len(metrics) : LinesOf(KeyOf(metrics[k])) # {}
        /\ \A i \in 1..Len(lines) :
            LET G == LinesOf(KeyOf(lines[i]))
                R == {k \in 1..Len(metrics) : KeyOf(metrics[k]) = KeyOf(lines[i])}
            IN  /\ Cardinality(R) = 1
                /\ \A k \in R :
                    /\ metrics[k].orders
                           = Cardinality({lines[j].invoice_id : j \in G})
                    /\ metrics[k].items = SumQuantity(G)
                    /\ metrics[k].net_gbp
                           = FAdd(metrics[k].gross_gbp, metrics[k].returns_gbp)
                    /\ (\A j \in G : ~IsNaN(lines[j].price_gbp)) =>
                        /\ metrics[k].gross_gbp
                               = SumValue({j \in G : lines[j].quantity > 0})
                        /\ metrics[k].returns_gbp
                               = SumValue({j \in G : lines[j].quantity < 0})
                        /\ metrics[k].net_gbp = SumValue(G)

\* invoice 1 with lines (2, 5) and (-1, 5) and invoice 2 with line (3, 2) on
\* one day of one customer: orders 2, items 6, gross 16, returns -5, net 11
C9_Witness ==
    /\ pc = "aggregated"
    /\ Len(lines) = 3
    /\ Len(metrics) = 1
    /\ {<<lines[i].invoice_id, lines[i].quantity, lines[i].price_gbp>> :
            i \in 1..3} = {<<1, 2, F(5)>>, <<1, -1, F(5)>>, <<2, 3, F(2)>>}
    /\ metrics[1].orders = 2
    /\ metrics[1].items = 6
    /\ metrics[1].gross_gbp = F(16)
    /\ metrics[1].returns_gbp = F(-5)
    /\ metrics[1].net_gbp = F(11)

----------------------------------------------------------------------------
(* C10: uniqueness enforcement.  When the metrics table holds two rows with *)
(* the same (date, customer_id), the run ends in a fatal error and no       *)
(* featured table is produced.                                              *)

\* a caller hands engineer_features a table of its own: the rows come in
\* (date, customer_id) order, and a key may come twice
HandRow ==
    /\ pc \in {"start", "loaded"}
    /\ lines = <<>>
    /\ Len(metrics) < MaxRows
    /\ \E r \in Rows :
        /\ IF metrics = <<>> THEN TRUE
           ELSE ~GroupKeyLess(KeyOf(r), KeyOf(metrics[Len(metrics)]))
        /\ metrics' = Append(metrics, r)
    /\ pc' = "loaded"
    /\ UNCHANGED <<lines, featured, predictVars, convertVars,
                   cleanVars, ingestVars>>

NextHanded == HandRow \/ EngineerFeatures

SpecHanded == Init /\ [][NextHanded]_vars

C10_UniquenessEnforced == HasDuplicateKey(metrics) => pc # "featured"

----------------------------------------------------------------------------
(* C11: prediction/training equivalence.  When a customer has history       *)
(* before the target date D, the calendar, rolling, lag and lifetime values *)
(* of the one feature row computed for the prediction are the values the    *)
(* feature engine attaches to the real row (C, D) of a training table that  *)
(* holds the persisted rows (other customers and later dates included) and  *)
(* that row; the prediction reads only the rows of C dated before D.        *)

\* the calendar, rolling, lag and lifetime columns
CausalColumns ==
    get_feature_columns \ {"orders", "items", "avg_items_per_order",
                           "returns_ratio"}

\* the persisted table with the real row of the requested key in it
TrainingTable ==
    LET r == RowAt(request.target_date, request.customer_id)
    IN  IF \E i \in 1..Len(metrics) : KeyOf(metrics[i]) = KeyOf(r)
        THEN metrics ELSE Append(metrics, r)

C11_PredictionTrainingEquivalence ==
    pc = "predicted" =>
        LET trained == engineer_features(TrainingTable)
        IN  /\ Len(feature_values) = 1
            /\ \E k \in 1..Len(trained) :
                /\ trained[k].customer_id = request.customer_id
                /\ trained[k].date = request.target_date
                /\ \A c \in CausalColumns :
                       feature_values[1][c] = trained[k][c]

\* a prediction for a customer with two or more earlier rows whose real row
\* of the target date is in the persisted table, after another customer's
\* rows and before a later row of its own
C11_Witness ==
    /\ pc = "predicted"
    /\ \E k \in 2..Len(metrics) :
        /\ metrics[k].customer_id = request.customer_id
        /\ metrics[k].date = request.target_date
        /\ metrics[k].net_gbp # F(0)
        /\ Cardinality(PriorRows(metrics, k)) >= 2
        /\ \E j \in 1..Len(metrics) :
               /\ metrics[j].customer_id = request.customer_id
               /\ metrics[j].date > request.target_date
        /\ \E j \in 1..Len(metrics) :
               /\ metrics[j].customer_id < request.customer_id
               /\ metrics[j].date < request.target_date
    /\ feature_values[1].customer_total_spend # F(0)
    /\ feature_values[1].lag_2d_net_gbp # F(0)

----------------------------------------------------------------------------
(* C12: new customer at prediction time.  A request for a customer without  *)
(* a metric row before the target date ends with one feature row whose      *)
(* rolling, lag and lifetime features are 0, and not in an error.           *)
HasHistory ==
    \E i \in 1..Len(metrics) :
        /\ metrics[i].customer_id = request.customer_id
        /\ metrics[i].date < request.target_date

C12_NewCustomerHandled ==
    (pc \in {"predicted", "failed"} /\ ~HasHistory) =>
        /\ pc = "predicted"
        /\ Len(feature_values) = 1
        /\ \A c \in HistoryColumns : feature_values[1][c] = F(0)

----------------------------------------------------------------------------
(* C13: missing rate handling.  Every line handed to the conversion is in   *)
(* the returned table, in its place.  A line whose (date, currency) has no  *)
(* row in the rate table gets the rate 1.0 and price_gbp = unit_price when  *)
(* its currency is GBP; for any other currency its price_gbp is undefined   *)
(* (not 0), and the line is counted in the reported number of missing       *)
(* rates.                                                                   *)

\* the rate table holds a row for the day of the line's file and its currency
HasRate(l) ==
    \E j \in 1..Len(fx_rates.rows) :
        /\ fx_rates.rows[j].date[2] = l.file_date[2]
        /\ fx_rates.rows[j].currency = l.currency

\* the lines handed to the conversion that have no rate
WithoutRate == {i \in 1..Len(transactions) : ~HasRate(transactions[i])}

C13_MissingRateHandling ==
    pc = "converted" =>
        /\ Len(df_with_fx) = Len(transactions)
        /\ \A i \in 1..Len(transactions) :
            /\ \A c \in {"file_date", "timestamp", "currency", "unit_price"} :
                   df_with_fx[i][c] = transactions[i][c]
            /\ i \in WithoutRate =>
                IF transactions[i].currency = "GBP"
                THEN /\ df_with_fx[i].rate_to_gbp = F(1)
                     /\ df_with_fx[i].price_gbp = transactions[i].unit_price
                ELSE /\ IsNaN(df_with_fx[i].price_gbp)
                     /\ df_with_fx[i].price_gbp # F(0)
        /\ missing_fx = Cardinality(WithoutRate)

\* a converted table with a GBP line and a EUR line that have no rate and a
\* line that has one
C13_Witness ==
    /\ pc = "converted"
    /\ \E i, j, k \in 1..Len(transactions) :
        /\ i \in WithoutRate /\ transactions[i].currency = "GBP"
        /\ j \in WithoutRate /\ transactions[j].currency = "EUR"
        /\ k \notin WithoutRate
    /\ missing_fx = 2

----------------------------------------------------------------------------
(* C14: currency conversion.  Every line whose (day of file_date, currency) *)
(* has a row in the rate table gets price_gbp = unit_price * rate_to_gbp of *)
(* that row; the prices are the same whatever the raw timestamps of the     *)
(* lines are.                                                               *)

\* the lines with every raw timestamp set to day t
Retimed(df, t) ==
    [i \in 1..Len(df) |->
        [df[i] EXCEPT !.timestamp = to_datetime(StrDate(t))]]

C14_CurrencyConversion ==
    pc = "converted" =>
        /\ Len(df_with_fx) = Len(transactions)
        /\ \A i \in 1..Len(transactions) :
            HasRate(transactions[i]) =>
                \E j \in 1..Len(fx_rates.rows) :
                    /\ fx_rates.rows[j].date[2] = transactions[i].file_date[2]
                    /\ fx_rates.rows[j].currency = transactions[i].currency
                    /\ df_with_fx[i].price_gbp =
                           FMul(transactions[i].unit_price,
                                fx_rates.rows[j].rate_to_gbp)
        /\ \A t \in FileDates :
            LET other == convert_to_gbp(Retimed(transactions, t), fx_rates)
            IN  Column(other.df_with_fx, "price_gbp")
                    = Column(df_with_fx, "price_gbp")

\* a converted EUR line whose raw timestamp falls on another day than its
\* file, in a run whose rate table holds the rates of both days
C14_Witness ==
    /\ pc = "converted"
    /\ \E i \in 1..Len(transactions) :
        /\ transactions[i].currency = "EUR"
        /\ transactions[i].timestamp[2] # transactions[i].file_date[2]
        /\ HasRate(transactions[i])
        /\ HasRate([transactions[i] EXCEPT
                        !.file_date = StrDate(transactions[i].timestamp[2])])
        /\ df_with_fx[i].price_gbp
               = FMul(F(42), RateAt(transactions[i].file_date[2], "EUR"))

----------------------------------------------------------------------------
(* C15: rate-table fail-fast.  When the rate table has no rows, or lacks    *)
(* one of the columns date, currency, rate_to_gbp, the conversion ends in   *)
(* an error and returns no converted table.                                 *)
EmptyOrMalformed ==
    fx_rates.rows = <<>> \/ ~(RateColumns \subseteq fx_rates.columns)

C15_RateTableFailFast ==
    (pc \in {"converted", "failed"} /\ EmptyOrMalformed) =>
        /\ pc = "failed"
        /\ df_with_fx = <<>>

----------------------------------------------------------------------------
(* C16: feature registry lockstep.                                          *)

\* the columns the feature engine adds to the metrics table
WrittenColumns(k) == (DOMAIN featured[k]) \ (DOMAIN metrics[1])

\* C16 as stated: the registry is exactly the set of columns the feature
\* engine adds to the metrics table, and holds none of date, customer_id and
\* net_gbp.
C16_RegistryLockstep ==
    pc = "featured" =>
        \A k \in 1..Len(featured) :
            /\ get_feature_columns = WrittenColumns(k)
            /\ get_feature_columns \cap {"date", "customer_id", "net_gbp"} = {}

\* C16 as the code has it: every column the feature engine adds is in the
\* registry; the registry holds besides them exactly the two metric columns
\* orders and items, so every registry name is a column of the featured
\* table; and the registry holds none of date, customer_id, net_gbp,
\* gross_gbp and returns_gbp.
C16_RegistryOfFeaturedColumns ==
    pc = "featured" =>
        \A k \in 1..Len(featured) :
            /\ WrittenColumns(k) \subseteq get_feature_columns
            /\ get_feature_columns \ WrittenColumns(k) = {"orders", "items"}
            /\ get_feature_columns \subseteq DOMAIN featured[k]
            /\ get_feature_columns \cap {"date", "customer_id", "net_gbp",
                                        "gross_gbp", "returns_gbp"} = {}

\* a featured table of two customers: 19 columns added to the 7 of the
\* metrics table, 21 names in the registry
C16_Witness ==
    /\ pc = "featured"
    /\ Len(featured) >= 3
    /\ featured[1].customer_id # featured[Len(featured)].customer_id
    /\ Cardinality(WrittenColumns(1)) = 19
    /\ Cardinality(DOMAIN metrics[1]) = 7
    /\ Cardinality(get_feature_columns) = 21

----------------------------------------------------------------------------
(* C17: aggregator output order.  The table returned by the aggregation is  *)
(* sorted ascending by (customer_id, date): the rows of a customer are      *)
(* contiguous and in date order.                                            *)
C17_AggregatorOrder ==
    pc = "aggregated" =>
        \A i, j \in 1..Len(metrics) :
            i < j => /\ SortKeyLeq(metrics[i], metrics[j])
                     /\ (metrics[i].customer_id = metrics[j].customer_id
                         => \A k \in i..j :
                                metrics[k].customer_id = metrics[i].customer_id)

----------------------------------------------------------------------------
(* C18: aggregated-metric invariants.  In the table the aggregation returns *)
(* for lines with defined prices, no (date, customer_id) comes twice, the   *)
(* keys of the table are exactly the keys of the lines, and every row has   *)
(* orders >= 0, items >= 0 and returns_gbp <= 0.                            *)
C18_MetricInvariants ==
    (pc = "aggregated" /\ ~HasUndefinedPrice) =>
        /\ ~HasDuplicateKey(metrics)
        /\ {KeyOf(metrics[k]) : k \in 1..Len(metrics)}
               = {KeyOf(lines[i]) : i \in 1..Len(lines)}
        /\ \A k \in 1..Len(metrics) :
            /\ metrics[k].orders >= 0
            /\ metrics[k].items >= 0
            /\ ~FLess(F(0), metrics[k].returns_gbp)

\* two groups, one of them with a sale and a return
C18_Witness ==
    /\ pc = "aggregated"
    /\ ~HasUndefinedPrice
    /\ Len(lines) = 3
    /\ Len(metrics) = 2
    /\ \E k \in 1..2 :
        /\ FLess(metrics[k].returns_gbp, F(0))
        /\ FLess(F(0), metrics[k].gross_gbp)

----------------------------------------------------------------------------
(* C19: no mutation of the rate table.  A call of the conversion that       *)
(* returns leaves the caller's rate table as it was: the same rows and      *)
(* columns, the same values, held in the same types.                        *)
C19_NoRateTableMutation ==
    [][(pc = "start" /\ pc' = "converted") => fx_rates' = fx_rates]_vars

----------------------------------------------------------------------------
(* C20: ratio clipping.  For every row, returns_ratio is returns_gbp        *)
(* divided by the larger of gross_gbp and 0.01, and 0 when that quotient is *)
(* positive; it is never positive, and it is 0 when gross_gbp and           *)
(* returns_gbp are both 0.                                                  *)
CappedRatio(g, r) ==
    LET den == IF FLess(g, <<1, 100>>) THEN <<1, 100>> ELSE g
        q   == Rat(r[1] * den[2], r[2] * den[1])
    IN  IF q[1] > 0 THEN F(0) ELSE q

C20_RatioClipping ==
    pc = "featured" =>
        \A k \in 1..Len(featured) :
            /\ featured[k].returns_ratio
                   = CappedRatio(featured[k].gross_gbp, featured[k].returns_gbp)
            /\ featured[k].returns_ratio[1] <= 0
            /\ (featured[k].gross_gbp = F(0) /\ featured[k].returns_gbp = F(0))
                   => featured[k].returns_ratio = F(0)

\* a featured table with a row whose gross_gbp and returns_gbp are both 0
\* and a row whose returns_gbp is positive
C20_Witness ==
    /\ pc = "featured"
    /\ \E i, j \in 1..Len(featured) :
        /\ featured[i].gross_gbp = F(0)
        /\ featured[i].returns_gbp = F(0)
        /\ featured[i].returns_ratio = F(0)
        /\ featured[j].returns_gbp = F(3)
        /\ featured[j].gross_gbp = F(10)
        /\ featured[j].returns_ratio = F(0)

----------------------------------------------------------------------------
(* C21: post-clean line invariant.  Every line of the table returned by the *)
(* preprocessing has quantity # 0 and unit_price > 0.                       *)
C21_PostCleanInvariant ==
    pc = "cleaned" =>
        \A i \in 1..Len(clean_transactions) :
            /\ clean_transactions[i].quantity # 0
            /\ FLess(F(0), clean_transactions[i].unit_price)

----------------------------------------------------------------------------
(* C22: line preservation in the conversion.  For any rate table, one with  *)
(* two rows for the same (date, currency) included, the returned table has  *)
(* exactly one row per line handed in: as many rows as lines, the i-th row  *)
(* being the i-th line.                                                     *)
C22_LinePreservation ==
    pc = "converted" =>
        /\ Len(df_with_fx) = Len(transactions)
        /\ \A i \in 1..Len(transactions) :
            \A c \in {"file_date", "timestamp", "currency", "unit_price"} :
                df_with_fx[i][c] = transactions[i][c]

----------------------------------------------------------------------------
(* C23: no files found.  When the discovery ends without a single file      *)
(* obtained, it ends by raising the ValueError 'No transaction files        *)
(* found', and with no other error.                                         *)
C23_NoFilesValueError ==
    (pc \in {"returned", "IndexError", "ValueError"} /\ downloaded_files = <<>>)
        => pc = "ValueError"

----------------------------------------------------------------------------
(* C24: discovery loop.  Dates are tried one day at a time in ascending     *)
(* order from start_date; the failure counter is 0 after every successful   *)
(* date; the loop stops exactly when the counter reaches max_attempts or,   *)
(* with an end_date, the next date is after it; the loop terminates (only   *)
(* finitely many dates have a file); and the list holds exactly the         *)
(* attempted dates that succeeded, in ascending order.                      *)

\* the dates tried so far
Attempted == StartDate..(current_date - 1)

\* the failed dates at the end of the dates tried so far
TrailingFailures ==
    LET got == {d \in Attempted : d \in available}
    IN  IF got = {} THEN current_date - StartDate
        ELSE current_date - 1 - (CHOOSE d \in got : \A e \in got : e <= d)

C24_ListAndCounter ==
    pc \in {"loop", "returned"} =>
        /\ current_date >= StartDate
        /\ \A i \in 1..Len(downloaded_files) :
               downloaded_files[i] \in Attempted \cap available
        /\ \A d \in Attempted \cap available :
               \E i \in 1..Len(downloaded_files) : downloaded_files[i] = d
        /\ \A i, j \in 1..Len(downloaded_files) :
               i < j => downloaded_files[i] < downloaded_files[j]
        /\ consecutive_failures = TrailingFailures

C24_Step ==
    pc = "loop" =>
        /\ (pc' # "loop") <=>
               (\/ consecutive_failures >= max_attempts
                \/ (end_date # 0 /\ current_date > end_date))
        /\ pc' = "loop" => current_date' = current_date + 1
        /\ pc' # "loop" => UNCHANGED <<current_date, downloaded_files>>

C24_DiscoveryLoop ==
    /\ []C24_ListAndCounter
    /\ [][C24_Step]_vars
    /\ <>(pc # "loop")

\* a list returned after a failed date was followed by a successful one
C24_Witness ==
    /\ pc = "returned"
    /\ end_date = 0
    /\ downloaded_files = <<1, 3>>
    /\ max_attempts = 2
    /\ consecutive_failures = max_attempts

====
